---- MODULE Spec2Model ----
(***************************************************************************)
(* State-machine model of rename_tool.py: the interactive batch renamer.   *)
(*                                                                         *)
(* Names are sequences of one-character strings, so that pathlib's         *)
(* stem/suffix split, the illegal-character filter and the insertion are   *)
(* computed character by character.  A path is a sequence of components    *)
(* (names); the empty path is the filesystem root.  The filesystem that    *)
(* the model tracks is the content of one directory, Dir, which is also    *)
(* the working directory: fs maps each entry name of Dir to its kind.      *)
(* Folders inside Dir are empty.                                           *)
(***************************************************************************)
EXTENDS Integers, Sequences, FiniteSets

VARIABLES
    sys_platform,      \* sys.platform of the host
    fs,                \* entries of Dir: name -> "file" | "folder"
    log_file,          \* lines appended to rename_log.txt
    pc,                \* position of rename_core's loop
    target_mode,       \* 'folder' | 'file' | 'all'
    input_path,        \* the path specification typed by the operator
    fault,             \* what the access probe of this resolution meets
    target_list,       \* result of get_target_list
    position,          \* "start" | "end" | "middle" (开头 / 末尾 / 中间)
    insert_index,
    filtered_content,
    rename_plan,
    plan_idx,          \* index of the plan item the for-loop is at
    success_count,
    fail_count,
    log_records,
    illegal_chars,     \* the characters the filter removed (line 359)
    console            \* one diagnostic per processed plan item

vars == <<sys_platform, fs, log_file, pc, target_mode, input_path, fault,
          target_list, position, insert_index, filtered_content, rename_plan,
          plan_idx, success_count, fail_count, log_records, illegal_chars,
          console>>

----------------------------------------------------------------------------
(* Bounds of the model.                                                    *)

MaxEntries == 2        \* entries of Dir in an initial filesystem
MaxListLen == 2        \* sub-specs of a comma-separated input
MaxIndex == 1          \* largest insert index typed in the workflow
MaxContentLen == 1     \* length of the custom content typed in the workflow
GenMaxNameLen == 3     \* name length in the name-generation specification
GenMaxContentLen == 2  \* content length in the name-generation specification
GenMaxIndex == 3       \* insert index in the name-generation specification

----------------------------------------------------------------------------
(* Sequences.                                                              *)

Range(s) == {s[i] : i \in 1..Len(s)}

SeqsUpTo(S, n) == UNION {[1..k -> S] : k \in 0..n}

Take(s, n) == SubSeq(s, 1, n)

Drop(s, n) == SubSeq(s, n + 1, Len(s))

\* Python's a // b for non-negative a
FloorDiv(a, b) == a \div b

\* all orders in which the elements of a finite set can be listed
OrderingsOf(S) ==
    {s \in [1..Cardinality(S) -> S] : \A i, j \in 1..Cardinality(S) : s[i] = s[j] => i = j}

----------------------------------------------------------------------------
(* Platforms and the illegal-character table.                              *)

Platforms == {"linux", "darwin", "win32"}

\* Win32 strips the dots a name ends with: the workflow is followed on the
\* platforms whose names are kept as given
PosixPlatforms == {"linux", "darwin"}

\* whether an entry of this platform can have this name
NameAllowed(platform, name) ==
    platform = "win32" => name[Len(name)] # "."

get_os_type(platform) ==
    IF platform = "win32" THEN "windows"
    ELSE IF platform = "darwin" THEN "macos"
    ELSE "linux"

ILLEGAL_CHARS(os_type) ==
    IF os_type = "windows" THEN {"<", ">", ":", "\"", "/", "\\", "|", "?", "*"}
    ELSE IF os_type = "macos" THEN {":", "/"}
    ELSE {"/"}

\* the separators pathlib splits a path string on (os.sep and os.altsep)
Separators(platform) ==
    IF get_os_type(platform) = "windows" THEN {"/", "\\"} ELSE {"/"}

filter_illegal_chars_identity(content, platform) ==
    [filtered_content |-> content, illegal_chars |-> {}]

filter_illegal_chars(content, platform) ==
    LET pattern == ILLEGAL_CHARS(get_os_type(platform))
        Legal(c) == c \notin pattern
    IN  [filtered_content |-> SelectSeq(content, Legal),
         illegal_chars |-> {c \in Range(content) : c \in pattern}]

----------------------------------------------------------------------------
(* pathlib: pure paths.                                                    *)

Dot == <<".">>

Dir == << <<"d">> >>

Cwd == Dir

PathName(p) == IF p = <<>> THEN <<>> ELSE p[Len(p)]

PathParent(p) == IF p = <<>> THEN <<>> ELSE Take(p, Len(p) - 1)

\* index of the last "." of a name, 0 when it has none (str.rfind + 1)
LastDot(name) ==
    LET dots == {i \in 1..Len(name) : name[i] = "."}
    IN  IF dots = {} THEN 0 ELSE CHOOSE i \in dots : \A j \in dots : j <= i

\* PurePath.suffix: from the last dot, unless that dot is the first or the
\* last character of the name
PathSuffix(name) ==
    LET i == LastDot(name)
    IN  IF 1 < i /\ i < Len(name) THEN Drop(name, i - 1) ELSE <<>>

PathStem(name) ==
    LET i == LastDot(name)
    IN  IF 1 < i /\ i < Len(name) THEN Take(name, i - 1) ELSE name

\* the components of a path string: split on the separators, empty and "."
\* components dropped
RECURSIVE SplitParts(_, _, _)
SplitParts(str, seps, cur) ==
    LET flush == IF cur = <<>> \/ cur = Dot THEN <<>> ELSE <<cur>>
    IN  IF str = <<>> THEN flush
        ELSE IF Head(str) \in seps THEN flush \o SplitParts(Tail(str), seps, <<>>)
        ELSE SplitParts(Tail(str), seps, Append(cur, Head(str)))

\* parent / name: an absolute name replaces the parent
PathJoin(parent, str, platform) ==
    LET seps == Separators(platform)
    IN  IF str # <<>> /\ Head(str) \in seps THEN SplitParts(str, seps, <<>>)
        ELSE parent \o SplitParts(str, seps, <<>>)

----------------------------------------------------------------------------
(* The filesystem.                                                         *)

IsPrefix(p, q) == Len(p) <= Len(q) /\ Take(q, Len(p)) = p

\* "file", "folder" or "none" (no such entry)
PathKind(f, p) ==
    IF IsPrefix(p, Dir) THEN "folder"
    ELSE IF Len(p) = Len(Dir) + 1 /\ PathParent(p) = Dir /\ PathName(p) \in DOMAIN f
         THEN f[PathName(p)]
    ELSE "none"

PathExists(f, p) == PathKind(f, p) # "none"

RemoveEntry(f, name) == [n \in DOMAIN f \ {name} |-> f[n]]

MoveEntry(f, old, new) ==
    [n \in (DOMAIN f \ {old}) \cup {new} |-> IF n = new THEN f[old] ELSE f[n]]

----------------------------------------------------------------------------
(* Path specifications typed by the operator.  A sub-spec is a path string: *)
(* absolute or relative, its components, and whether it holds a character   *)
(* (an embedded NUL) that makes Path.resolve() raise.  input_path is the    *)
(* sequence of sub-specs between the commas of the input: a single element  *)
(* when the input has no comma.                                             *)

EmptySpec == [abs |-> FALSE, parts |-> <<>>, nul |-> FALSE]

RelSpec(name) == [abs |-> FALSE, parts |-> <<name>>, nul |-> FALSE]

AbsSpec(name) == [abs |-> TRUE, parts |-> Dir \o <<name>>, nul |-> FALSE]

NulSpec == [abs |-> FALSE, parts |-> << <<"a">> >>, nul |-> TRUE]

IsEmptyString(sp) == ~sp.abs /\ sp.parts = <<>>

\* '*' in input_path
HasStar(sp) == \E i \in 1..Len(sp.parts) : "*" \in Range(sp.parts[i])

\* Path(path).resolve(): made absolute against the working directory, "."
\* components dropped
ResolvePath(sp) ==
    LET NotDot(c) == c # Dot
    IN  SelectSeq((IF sp.abs THEN <<>> ELSE Cwd) \o sp.parts, NotDot)

\* fnmatch of one name against a pattern whose only wildcard is "*"
RECURSIVE GlobMatch(_, _)
GlobMatch(pat, name) ==
    IF pat = <<>> THEN name = <<>>
    ELSE IF Head(pat) = "*"
         THEN GlobMatch(Tail(pat), name) \/ (name # <<>> /\ GlobMatch(pat, Tail(name)))
    ELSE name # <<>> /\ Head(name) = Head(pat) /\ GlobMatch(Tail(pat), Tail(name))

\* names of the entries of directory p
ListDir(f, p) ==
    IF p = Dir THEN DOMAIN f
    ELSE IF IsPrefix(p, Dir) THEN {Dir[Len(p) + 1]}
    ELSE {}

\* a directory listing, in some order
ListingOf(S) == CHOOSE s \in OrderingsOf(S) : TRUE

----------------------------------------------------------------------------
(* Access probes.  fault says which path the environment refuses during    *)
(* this resolution, and how: "perm" raises PermissionError, "err" raises   *)
(* another OSError (a read-only filesystem, an I/O error).                 *)

NoFault == [at |-> <<>>, kind |-> "none"]

FaultAt(flt, p) == IF flt.kind # "none" /\ flt.at = p THEN flt.kind ELSE "none"

\* f".tmp_{int(time.time())}": the probe file's name
ProbeName == <<".", "t">>

----------------------------------------------------------------------------
(* validate_root_path, lines 31-59.  The result carries the filesystem     *)
(* the probe leaves behind and whether an exception left the function.     *)

Invalid(f, diag) ==
    [valid |-> FALSE, abs_path |-> <<>>, diag |-> diag, crashed |-> FALSE, fs |-> f]

Crashed(f) ==
    [valid |-> FALSE, abs_path |-> <<>>, diag |-> "none", crashed |-> TRUE, fs |-> f]

Valid(f, p) ==
    [valid |-> TRUE, abs_path |-> p, diag |-> "none", crashed |-> FALSE, fs |-> f]

\* touch(exist_ok=True) then unlink() of directory/ProbeName
ProbeWrite(f, directory, flt, platform) ==
    LET test_file == directory \o <<ProbeName>>
        there == PathKind(f, test_file)
    IN  IF FaultAt(flt, directory) = "perm" THEN Invalid(f, "permission")
        ELSE IF FaultAt(flt, directory) = "err" THEN Crashed(f)
        ELSE IF there = "none" THEN Valid(f, directory)
        ELSE IF there = "file" THEN Valid(RemoveEntry(f, ProbeName), directory)
        \* unlink() of a directory: IsADirectoryError on Linux, PermissionError
        \* on macOS and Windows
        ELSE IF get_os_type(platform) = "linux" THEN Crashed(f)
        ELSE Invalid(f, "permission")

validate_root_path(f, sp, flt, platform) ==
    LET abs_path == ResolvePath(sp)
    IN  IF IsEmptyString(sp) THEN Invalid(f, "empty")
        ELSE IF sp.nul THEN Invalid(f, "format")
        ELSE IF ~PathExists(f, abs_path) THEN Invalid(f, "missing")
        ELSE IF PathKind(f, abs_path) # "folder" THEN Invalid(f, "not_folder")
        ELSE ProbeWrite(f, abs_path, flt, platform)

(* validate_single_path, lines 159-195 *)

ProbeRead(f, abs_path, flt) ==
    IF FaultAt(flt, abs_path) = "perm" THEN Invalid(f, "permission")
    ELSE IF FaultAt(flt, abs_path) = "err" THEN Crashed(f)
    ELSE Valid(f, abs_path)

validate_single_path(f, sp, target_type, flt, platform) ==
    LET abs_path == ResolvePath(sp)
    IN  IF IsEmptyString(sp) THEN Invalid(f, "empty")
        ELSE IF sp.nul THEN Invalid(f, "format")
        ELSE IF ~PathExists(f, abs_path) THEN Invalid(f, "missing")
        ELSE IF PathKind(f, abs_path) # target_type THEN Invalid(f, "wrong_type")
        ELSE IF target_type = "folder" THEN ProbeWrite(f, abs_path, flt, platform)
        ELSE ProbeRead(f, abs_path, flt)

----------------------------------------------------------------------------
(* get_target_list, lines 81-156.  found is target_list before line 146;   *)
(* crashed says that an exception left the function.                       *)

Target(p, type) == [path |-> p, type |-> type]

\* lines 93-110
TargetsOfRoot(f, input, flt, platform) ==
    LET v == validate_root_path(f, input[1], flt, platform)
        items == ListingOf(ListDir(v.fs, v.abs_path))
        found == [i \in 1..Len(items) |->
                    Target(v.abs_path \o <<items[i]>>,
                           PathKind(v.fs, v.abs_path \o <<items[i]>>))]
    IN  IF v.crashed THEN [found |-> <<>>, crashed |-> TRUE, fs |-> v.fs]
        ELSE IF ~v.valid THEN [found |-> <<>>, crashed |-> FALSE, fs |-> v.fs]
        ELSE [found |-> found, crashed |-> FALSE, fs |-> v.fs]

\* lines 116-123: the sub-specs are validated in order; an exception in one
\* ends the function
TargetsOfList(f, input, target_type, flt, platform) ==
    LET v == [i \in 1..Len(input) |->
                validate_single_path(f, input[i], target_type, flt, platform)]
        IsValid(r) == r.valid
        ok == SelectSeq(v, IsValid)
    IN  [found |-> [i \in 1..Len(ok) |-> Target(ok[i].abs_path, target_type)],
         crashed |-> \E i \in 1..Len(v) : v[i].crashed,
         fs |-> f]

\* lines 126-135
TargetsOfGlob(f, input, target_type) ==
    LET sp == input[1]
        parent_dir == ResolvePath([sp EXCEPT !.parts = PathParent(sp.parts)])
        pattern == PathName(sp.parts)
        items == ListingOf({n \in ListDir(f, parent_dir) :
                              /\ GlobMatch(pattern, n)
                              /\ PathKind(f, parent_dir \o <<n>>) = target_type})
    IN  IF sp.nul THEN [found |-> <<>>, crashed |-> FALSE, fs |-> f]
        ELSE [found |-> [i \in 1..Len(items) |->
                           Target(parent_dir \o <<items[i]>>, target_type)],
              crashed |-> FALSE, fs |-> f]

\* lines 137-143
TargetsOfSingle(f, input, target_type, flt, platform) ==
    LET v == validate_single_path(f, input[1], target_type, flt, platform)
    IN  [found |-> IF v.valid THEN <<Target(v.abs_path, target_type)>> ELSE <<>>,
         crashed |-> v.crashed,
         fs |-> v.fs]

FoundTargets(f, input, mode, flt, platform) ==
    LET target_type == IF mode = "folder" THEN "folder" ELSE "file"
    IN  IF mode = "all" THEN TargetsOfRoot(f, input, flt, platform)
        ELSE IF Len(input) > 1 THEN TargetsOfList(f, input, target_type, flt, platform)
        ELSE IF HasStar(input[1]) THEN TargetsOfGlob(f, input, target_type)
        ELSE TargetsOfSingle(f, input, target_type, flt, platform)

\* line 146: a set of the (path, type) pairs, listed again in the set's order
Deduplicated_none(found) == {found}

Deduplicated(found) == OrderingsOf(Range(found))

----------------------------------------------------------------------------
(* generate_new_name, lines 198-237 *)

Positions == {"start", "end", "middle"}

\* lines 220-222 and 232-234: the index is replaced when it is not inside
\* the name
Splice_unclamped(name, custom_content, index) ==
    LET i == IF index >= Len(name) THEN Len(name) ELSE index
    IN  Take(name, i) \o custom_content \o Drop(name, i)

Splice(name, custom_content, index) ==
    LET i == IF index >= Len(name) THEN FloorDiv(Len(name), 2) ELSE index
    IN  Take(name, i) \o custom_content \o Drop(name, i)

Insert(name, pos, custom_content, index) ==
    IF pos = "start" THEN custom_content \o name
    ELSE IF pos = "end" THEN name \o custom_content
    ELSE Splice(name, custom_content, index)

generate_new_name_whole(target, pos, custom_content, index) ==
    Insert(PathName(target.path), pos, custom_content, index)

generate_new_name(target, pos, custom_content, index) ==
    IF target.type = "folder"
    THEN Insert(PathName(target.path), pos, custom_content, index)
    ELSE Insert(PathStem(PathName(target.path)), pos, custom_content, index)
            \o PathSuffix(PathName(target.path))

(* check_duplicate_name, lines 240-250 *)

check_duplicate_name_never(f, target_path, new_name, platform) == FALSE

check_duplicate_name(f, target_path, new_name, platform) ==
    PathExists(f, PathJoin(PathParent(target_path), new_name, platform))

\* lines 374-394: one plan item
PlanItem(f, target, pos, custom_content, index, platform) ==
    LET new_name == generate_new_name(target, pos, custom_content, index)
    IN  [original_path |-> target.path,
         original_name |-> PathName(target.path),
         new_name |-> new_name,
         new_path |-> PathJoin(PathParent(target.path), new_name, platform),
         type |-> target.type,
         duplicate |-> check_duplicate_name(f, target.path, new_name, platform)]

\* line 430: the audit line of a renamed item (timestamp and operator left out)
LogRecord(plan, pos, index) ==
    [type |-> plan.type, position |-> pos,
     insert_index |-> IF pos = "middle" THEN index ELSE -1,
     original_path |-> plan.original_path, new_path |-> plan.new_path]

----------------------------------------------------------------------------
(* os.rename(original_path, new_path), line 424.  The result is the        *)
(* filesystem left behind and the diagnostic: "ok", "perm" (PermissionError)*)
(* or "err" (any other exception).  env is what the environment does to    *)
(* this call: "ok", "perm" or "err".                                       *)

os_rename(f, src, dst, env, platform) ==
    LET old == PathName(src)
        new == PathName(dst)
        posix == get_os_type(platform) # "windows"
    IN  IF env # "ok" THEN [fs |-> f, diag |-> env]
        ELSE IF PathParent(src) # Dir \/ old \notin DOMAIN f THEN [fs |-> f, diag |-> "err"]
        ELSE IF PathParent(dst) # Dir \/ Len(dst) # Len(Dir) + 1 THEN [fs |-> f, diag |-> "err"]
        ELSE IF new \notin DOMAIN f THEN [fs |-> MoveEntry(f, old, new), diag |-> "ok"]
        \* the destination exists: POSIX replaces a file by a file and an
        \* empty folder by a folder, Windows raises FileExistsError
        ELSE IF posix /\ f[old] = f[new] THEN [fs |-> MoveEntry(f, old, new), diag |-> "ok"]
        ELSE [fs |-> f, diag |-> "err"]

----------------------------------------------------------------------------
(* Lines 416-437: what the for-loop does with one plan item.  The result   *)
(* is the filesystem left behind, the diagnostic printed ("skip", "ok",    *)
(* "perm", "err"), what is added to the two counters, and the audit        *)
(* records appended.                                                       *)

ProcessItem_logs_failures(f, plan, pos, index, env, platform) ==
    LET r == os_rename(f, plan.original_path, plan.new_path, env, platform)
    IN  IF plan.duplicate
        THEN [fs |-> f, diag |-> "skip", success |-> 0, fail |-> 1, records |-> <<>>]
        ELSE [fs |-> r.fs, diag |-> r.diag,
              success |-> IF r.diag = "ok" THEN 1 ELSE 0,
              fail |-> IF r.diag = "ok" THEN 0 ELSE 1,
              records |-> <<LogRecord(plan, pos, index)>>]

ProcessItem(f, plan, pos, index, env, platform) ==
    LET r == os_rename(f, plan.original_path, plan.new_path, env, platform)
    IN  IF plan.duplicate
        THEN [fs |-> f, diag |-> "skip", success |-> 0, fail |-> 1, records |-> <<>>]
        ELSE IF r.diag = "ok"
        THEN [fs |-> r.fs, diag |-> "ok", success |-> 1, fail |-> 0,
              records |-> <<LogRecord(plan, pos, index)>>]
        ELSE [fs |-> r.fs, diag |-> r.diag, success |-> 0, fail |-> 1,
              records |-> <<>>]

\* where the loop stands after an item: every except-clause falls through to
\* the next iteration, the loop ends after the last item only
LoopAfter_abort(diag, next_idx, n) ==
    IF diag \in {"perm", "err"} \/ next_idx > n THEN "summary" ELSE "execute"

LoopAfter(diag, next_idx, n) ==
    IF next_idx > n THEN "summary" ELSE "execute"

----------------------------------------------------------------------------
(* What the operator and the environment can supply.                       *)

Kinds == {"file", "folder"}

\* names of the entries an initial Dir can hold: no extension, an
\* extension, a trailing dot, and a hidden file that has the probe's name
EntryNames == {<<"t">>, <<"a", ".", "a">>, <<"a", "a", ".">>, ProbeName}

MissingName == <<"z">>

InitialFilesystems ==
    UNION {[S -> Kinds] : S \in {T \in SUBSET EntryNames : Cardinality(T) <= MaxEntries}}

\* the sub-specs of a comma-separated input
ListSpecs(f) ==
    {RelSpec(n) : n \in DOMAIN f} \cup {AbsSpec(n) : n \in DOMAIN f}
        \cup {RelSpec(MissingName)}

GlobPatterns == {<<"*">>, <<"a", "*">>}

GlobSpecs ==
    {RelSpec(g) : g \in GlobPatterns} \cup {AbsSpec(g) : g \in GlobPatterns}
        \cup {[RelSpec(g) EXCEPT !.nul = TRUE] : g \in GlobPatterns}

RootSpecs(f) ==
    {[abs |-> TRUE, parts |-> Dir, nul |-> FALSE], RelSpec(Dot), RelSpec(MissingName),
     EmptySpec, NulSpec} \cup {RelSpec(n) : n \in DOMAIN f}

InputsFor(mode, f) ==
    IF mode = "all" THEN {<<sp>> : sp \in RootSpecs(f)}
    ELSE {<<sp>> : sp \in ListSpecs(f) \cup {EmptySpec, NulSpec} \cup GlobSpecs}
            \cup UNION {[1..k -> ListSpecs(f)] : k \in 2..MaxListLen}

\* the paths a resolution in this mode probes
Faults(mode, f) ==
    {NoFault} \cup {[at |-> p, kind |-> k] :
                      p \in IF mode = "all" THEN {Dir} ELSE {Dir \o <<n>> : n \in DOMAIN f},
                      k \in {"perm", "err"}}

ContentAlphabet == {"a", ".", "/"}

RawContents == SeqsUpTo(ContentAlphabet, MaxContentLen) \ {<<>>}

\* the index typed at line 338: -1 stands for the empty input
IndexInputs == -1..MaxIndex

----------------------------------------------------------------------------
(* rename_core, lines 268-453 *)

NoLocals ==
    /\ target_mode = "none"
    /\ input_path = <<>>
    /\ fault = NoFault
    /\ target_list = <<>>
    /\ position = "none"
    /\ insert_index = 0
    /\ filtered_content = <<>>
    /\ illegal_chars = {}
    /\ rename_plan = <<>>
    /\ plan_idx = 0
    /\ success_count = 0
    /\ fail_count = 0
    /\ log_records = <<>>
    /\ console = <<>>

\* the locals of one iteration of the while-loop are dead at its top and
\* after the program has ended
ResetLocals ==
    /\ target_mode' = "none"
    /\ input_path' = <<>>
    /\ fault' = NoFault
    /\ target_list' = <<>>
    /\ position' = "none"
    /\ insert_index' = 0
    /\ filtered_content' = <<>>
    /\ illegal_chars' = {}
    /\ rename_plan' = <<>>
    /\ plan_idx' = 0
    /\ success_count' = 0
    /\ fail_count' = 0
    /\ log_records' = <<>>
    /\ console' = <<>>

Init ==
    /\ sys_platform \in PosixPlatforms
    /\ fs \in InitialFilesystems
    /\ log_file = <<>>
    /\ pc = "menu"
    /\ NoLocals

\* lines 282-311: the mode and the path are read; what the probes of the
\* coming resolution will meet is fixed here
ChooseInput ==
    /\ pc = "menu"
    /\ \E mode \in {"folder", "file", "all"} :
         \E input \in InputsFor(mode, fs) :
           \E flt \in Faults(mode, fs) :
             /\ target_mode' = mode
             /\ input_path' = input
             /\ fault' = flt
    /\ pc' = "resolve"
    /\ UNCHANGED <<sys_platform, fs, log_file, target_list, position, insert_index,
                   filtered_content, illegal_chars, rename_plan, plan_idx,
                   success_count, fail_count, log_records, console>>

\* lines 314-316: get_target_list; an empty result returns to the menu, an
\* exception leaves rename_core (lines 461-463)
GetTargetList ==
    /\ pc = "resolve"
    /\ LET r == FoundTargets(fs, input_path, target_mode, fault, sys_platform)
       IN  /\ fs' = r.fs
           /\ IF r.crashed
              THEN /\ pc' = "crashed"
                   /\ UNCHANGED <<target_mode, input_path, fault, target_list>>
              ELSE IF r.found = <<>>
              THEN /\ pc' = "menu"
                   /\ target_mode' = "none"
                   /\ input_path' = <<>>
                   /\ fault' = NoFault
                   /\ target_list' = <<>>
              ELSE /\ pc' = "position"
                   /\ target_list' \in Deduplicated(r.found)
                   /\ fault' = NoFault
                   /\ UNCHANGED <<target_mode, input_path>>
    /\ UNCHANGED <<sys_platform, log_file, position, insert_index, filtered_content,
                   illegal_chars, rename_plan, plan_idx, success_count, fail_count,
                   log_records, console>>

\* lines 319-326: the position is read; without an index to read,
\* insert_index stays 0.  input_path is not read after line 314
ReadPosition ==
    /\ pc = "position"
    /\ position' \in Positions
    /\ insert_index' = 0
    /\ pc' = IF position' = "middle" THEN "index" ELSE "content"
    /\ input_path' = <<>>
    /\ UNCHANGED <<sys_platform, fs, log_file, target_mode, fault, target_list,
                   filtered_content, illegal_chars, rename_plan, plan_idx,
                   success_count, fail_count, log_records, console>>

\* lines 327-349: the index of a Middle insertion is read; an empty input
\* (-1 here) is half the length of the first target's name
ReadIndexFrom(indexes) ==
    /\ pc = "index"
    /\ \E index_input \in indexes :
         LET sample == target_list[1]
             sample_name == IF sample.type = "file" THEN PathStem(PathName(sample.path))
                            ELSE PathName(sample.path)
         IN  insert_index' = IF index_input < 0 THEN FloorDiv(Len(sample_name), 2)
                             ELSE index_input
    /\ pc' = "content"
    /\ UNCHANGED <<sys_platform, fs, log_file, target_mode, input_path, fault,
                   target_list, position, filtered_content, illegal_chars,
                   rename_plan, plan_idx, success_count, fail_count, log_records,
                   console>>

ReadIndex == ReadIndexFrom(IndexInputs)

\* lines 352-394: the content is read and filtered (an empty result is asked
\* again), the plan is built
BuildPlanFrom(contents) ==
    /\ pc = "content"
    /\ \E custom_content \in contents :
         LET filtered == filter_illegal_chars(custom_content, sys_platform)
         IN  /\ filtered.filtered_content # <<>>
             /\ filtered_content' = filtered.filtered_content
             /\ illegal_chars' = filtered.illegal_chars
             /\ rename_plan' = [k \in 1..Len(target_list) |->
                                  PlanItem(fs, target_list[k], position,
                                           filtered.filtered_content, insert_index,
                                           sys_platform)]
    /\ pc' = "confirm"
    /\ UNCHANGED <<sys_platform, fs, log_file, target_mode, input_path, fault,
                   target_list, position, insert_index, plan_idx, success_count,
                   fail_count, log_records, console>>

BuildPlan == BuildPlanFrom(RawContents)

\* lines 399-406: the operator does not confirm
Decline ==
    /\ pc = "confirm"
    /\ pc' = "menu"
    /\ ResetLocals
    /\ UNCHANGED <<sys_platform, fs, log_file>>

\* lines 404-415: the operator confirms; os.getlogin() raises OSError when
\* the process has no controlling terminal
Confirm ==
    /\ pc = "confirm"
    /\ \E getlogin \in {"ok", "raise"} :
         IF getlogin = "raise"
         THEN /\ pc' = "crashed"
              /\ plan_idx' = 0
         ELSE /\ pc' = "execute"
              /\ plan_idx' = 1
    /\ success_count' = 0
    /\ fail_count' = 0
    /\ log_records' = <<>>
    /\ console' = <<>>
    /\ illegal_chars' = {}
    /\ UNCHANGED <<sys_platform, fs, log_file, target_mode, input_path, fault,
                   target_list, position, insert_index, filtered_content, rename_plan>>

\* lines 416-442: one iteration of the for-loop; after the last one the
\* totals are printed
RenameStep ==
    /\ pc = "execute"
    /\ plan_idx <= Len(rename_plan)
    /\ \E env \in {"ok", "perm", "err"} :
         LET r == ProcessItem(fs, rename_plan[plan_idx], position, insert_index, env,
                              sys_platform)
         IN  /\ fs' = r.fs
             /\ console' = Append(console, r.diag)
             /\ success_count' = success_count + r.success
             /\ fail_count' = fail_count + r.fail
             /\ log_records' = log_records \o r.records
             /\ pc' = LoopAfter(r.diag, plan_idx + 1, Len(rename_plan))
    /\ plan_idx' = plan_idx + 1
    /\ UNCHANGED <<sys_platform, log_file, target_mode, input_path, fault, target_list,
                   position, insert_index, filtered_content, illegal_chars,
                   rename_plan>>

\* lines 445-447 and save_operation_log, lines 253-265: a failed write is
\* caught and reported
SaveLog(save_log, written) ==
    IF save_log = "Y" /\ log_records # <<>> /\ written
    THEN log_file \o log_records
    ELSE log_file

\* what the log file can hold after lines 445-447
SavedLogs == {SaveLog(save_log, written) : save_log \in {"Y", "N"}, written \in BOOLEAN}

\* lines 445-453, the operator stops
Quit ==
    /\ pc = "summary"
    /\ log_file' \in SavedLogs
    /\ pc' = "exit"
    /\ ResetLocals
    /\ UNCHANGED <<sys_platform, fs>>

\* lines 445-453, the operator goes on: the model follows a session on while
\* it has renamed nothing
ContinueOper ==
    /\ pc = "summary"
    /\ success_count = 0
    /\ log_file' \in SavedLogs
    /\ pc' = "menu"
    /\ ResetLocals
    /\ UNCHANGED <<sys_platform, fs>>

Next ==
    \/ ChooseInput
    \/ GetTargetList
    \/ ReadPosition
    \/ ReadIndex
    \/ BuildPlan
    \/ Decline
    \/ Confirm
    \/ RenameStep
    \/ Quit
    \/ ContinueOper

Spec == Init /\ [][Next]_vars

----------------------------------------------------------------------------
(* The name-generation specification: one target of any name and kind, on  *)
(* any platform, planned with any position, index and content.             *)

GenNameAlphabet == {"a", "b", "."}

GenContentAlphabet == {"x", ".", "/", "\\", ":"}

GenNames == SeqsUpTo(GenNameAlphabet, GenMaxNameLen) \ {<<>>, <<".">>, <<".", ".">>}

GenRawContents == SeqsUpTo(GenContentAlphabet, GenMaxContentLen) \ {<<>>}

InitGen ==
    /\ sys_platform \in Platforms
    /\ \E n \in GenNames, k \in Kinds :
         /\ NameAllowed(sys_platform, n)
         /\ fs = [x \in {n} |-> k]
         /\ target_list = <<Target(Dir \o <<n>>, k)>>
         /\ target_mode = IF k = "folder" THEN "folder" ELSE "file"
         /\ input_path = <<RelSpec(n)>>
    /\ log_file = <<>>
    /\ pc = "position"
    /\ fault = NoFault
    /\ position = "none"
    /\ insert_index = 0
    /\ filtered_content = <<>>
    /\ illegal_chars = {}
    /\ rename_plan = <<>>
    /\ plan_idx = 0
    /\ success_count = 0
    /\ fail_count = 0
    /\ log_records = <<>>
    /\ console = <<>>

ReadIndexGen == ReadIndexFrom(-1..GenMaxIndex)

BuildPlanGen == BuildPlanFrom(GenRawContents)

NextGen ==
    \/ ReadPosition
    \/ ReadIndexGen
    \/ BuildPlanGen

SpecGen == InitGen /\ [][NextGen]_vars

----------------------------------------------------------------------------
(* Properties.                                                             *)

Executing == pc \in {"execute", "summary"}

\* number of plan items the for-loop has processed
Done == Len(console)

NoDuplicates(s) == \A i, j \in 1..Len(s) : s[i] = s[j] => i = j

\* C1: the for-loop processes the plan items one by one in plan order,
\* whatever their diagnostics: after k iterations exactly the first k items
\* have a diagnostic and the loop stands at item k + 1, a skipped item's
\* diagnostic is "skip", the loop ends only after the last item (no failure
\* ends it and nothing raised once it has begun), and success_count plus
\* fail_count is the number of items processed, so the number of plan items
\* when the totals are printed.
C1_EveryItemAttemptedOnce ==
    /\ Executing =>
         /\ Done = plan_idx - 1
         /\ Done <= Len(rename_plan)
         /\ success_count + fail_count = Done
         /\ \A k \in 1..Done : (console[k] = "skip") <=> rename_plan[k].duplicate
    /\ pc = "summary" =>
         /\ Done = Len(rename_plan)
         /\ success_count + fail_count = Len(rename_plan)
    /\ pc = "execute" => plan_idx <= Len(rename_plan)
    /\ pc = "crashed" => Done = 0

\* the rename of the first item failed and the second item was renamed
C1_Witness ==
    /\ pc = "summary"
    /\ Len(rename_plan) >= 2
    /\ console[1] \in {"perm", "err"}
    /\ console[2] = "ok"
    /\ success_count = 1
    /\ fail_count = Len(rename_plan) - 1

\* C2: while the preview is shown (the filesystem is the one the plan was
\* built on) an item's duplicate flag is set exactly when Dir, the parent of
\* every target, holds an entry named new_name; and an item whose flag is
\* set is skipped by the loop: its diagnostic is the skip, no audit record
\* names it, its entry is still there under its original name, and the
\* failures counted are the skips plus the failed renames.
C2_CollidesFlagAndSkip ==
    /\ pc = "confirm" =>
         \A k \in 1..Len(rename_plan) :
           /\ PathParent(rename_plan[k].original_path) = Dir
           /\ rename_plan[k].duplicate <=> rename_plan[k].new_name \in DOMAIN fs
    /\ Executing =>
         /\ \A k \in 1..Done :
              rename_plan[k].duplicate =>
                /\ console[k] = "skip"
                /\ rename_plan[k].original_name \in DOMAIN fs
                /\ fs[rename_plan[k].original_name] = rename_plan[k].type
                /\ \A j \in 1..Len(log_records) :
                     log_records[j].original_path # rename_plan[k].original_path
         /\ fail_count = Cardinality({k \in 1..Done : console[k] # "ok"})

\* a flagged item was skipped and another item of the batch was renamed
C2_Witness ==
    /\ pc = "summary"
    /\ \E k, j \in 1..Len(rename_plan) :
         /\ rename_plan[k].duplicate
         /\ console[k] = "skip"
         /\ console[j] = "ok"

\* the indexes, in order, of the processed items whose rename succeeded
RenamedIndexes ==
    LET Ok(k) == console[k] = "ok"
    IN  SelectSeq([k \in 1..Done |-> k], Ok)

\* C3: during and after the execution of a plan the audit records are, in
\* processing order, one record per item whose rename succeeded (its
\* original and new path) and nothing else, so their number is
\* success_count.
C3_AuditRecordsAreTheSuccesses ==
    Executing =>
      /\ Len(log_records) = success_count
      /\ Len(log_records) = Len(RenamedIndexes)
      /\ \A j \in 1..Len(RenamedIndexes) :
           /\ j <= Len(log_records)
           /\ log_records[j].original_path = rename_plan[RenamedIndexes[j]].original_path
           /\ log_records[j].new_path = rename_plan[RenamedIndexes[j]].new_path

\* a batch with a failed rename and a success: fewer records than items
C3_Witness ==
    /\ pc = "summary"
    /\ Len(log_records) >= 1
    /\ Len(log_records) < Len(rename_plan)
    /\ \E k \in 1..Done : console[k] \in {"perm", "err"}

\* the claim's extension: from the last "." of the name on, empty without one
LastDotExt(name) == IF LastDot(name) = 0 THEN <<>> ELSE Drop(name, LastDot(name) - 1)

LastDotStem(name) == Take(name, Len(name) - Len(LastDotExt(name)))

\* s with content inserted at some offset
InsertedSomewhere(s, content) ==
    {Take(s, i) \o content \o Drop(s, i) : i \in 0..Len(s)}

Planned == pc = "confirm" /\ rename_plan # <<>>

C5_SameParent ==
    Planned =>
      \A k \in 1..Len(rename_plan) :
        /\ Range(rename_plan[k].new_name) \cap Separators(sys_platform) = {}
        /\ PathParent(rename_plan[k].new_path) = PathParent(rename_plan[k].original_path)
        /\ PathName(rename_plan[k].new_path) = rename_plan[k].new_name

\* the filter removed a separator from the content of a plan
C5_Witness ==
    /\ Planned
    /\ illegal_chars \cap Separators(sys_platform) # {}
    /\ filtered_content # <<>>

\* C9: a Middle insertion puts the content at offset i of the transformed
\* name (the whole name of a Folder, pathlib's stem of a File, whose suffix
\* follows unchanged), i being insert_index when that is less than the
\* length of the transformed name and half that length, rounded down,
\* otherwise; stem "abc" with index 10 gives "a" + content + "bc".
C9_MiddleInsertion ==
    /\ Planned /\ position = "middle" =>
         \A k \in 1..Len(rename_plan) :
           LET old == rename_plan[k].original_name
               isFile == rename_plan[k].type = "file"
               name == IF isFile THEN PathStem(old) ELSE old
               rest == IF isFile THEN PathSuffix(old) ELSE <<>>
               i == IF insert_index < Len(name) THEN insert_index ELSE Len(name) \div 2
           IN  rename_plan[k].new_name
                 = SubSeq(name, 1, i) \o filtered_content \o SubSeq(name, i + 1, Len(name))
                     \o rest
    /\ generate_new_name(Target(Dir \o << <<"a", "b", "c">> >>, "file"), "middle",
                         <<"x">>, 10) = <<"a", "x", "b", "c">>

\* an index beyond the name was replaced by the middle of the name
C9_Witness ==
    /\ Planned
    /\ position = "middle"
    /\ Len(rename_plan[1].original_name) = 3
    /\ rename_plan[1].type = "folder"
    /\ insert_index >= 3
    /\ rename_plan[1].new_name
         = <<rename_plan[1].original_name[1]>> \o filtered_content
              \o Drop(rename_plan[1].original_name, 1)

\* the steps that precede the execution of a plan
BeforeExecution == pc \in {"menu", "resolve", "position", "index", "content", "confirm"}

\* C6 as claimed: no step before the execution of a plan (reading the
\* input, resolving the targets with their probes, building the plan,
\* declining or confirming it) changes the entries of the filesystem.
C6_Original == [][BeforeExecution => (fs' = fs)]_vars

\* C7 as claimed: no exception leaves the resolution of the targets.
C7_Original == [][pc = "resolve" => (pc' # "crashed")]_vars

\* the targets the input names: the entries of the expected kind that its
\* sub-specs resolve to and the probe accepts, the matches of its pattern,
\* or all the entries of the root
NamedTargets ==
    LET type == IF target_mode = "folder" THEN "folder" ELSE "file"
        Entry(n) == Target(Dir \o <<n>>, fs'[n])
    IN  IF target_mode = "all"
        THEN IF target_list' = <<>> THEN {} ELSE {Entry(n) : n \in DOMAIN fs'}
        ELSE IF Len(input_path) = 1 /\ HasStar(input_path[1])
        THEN IF input_path[1].nul THEN {}
             ELSE {Entry(n) : n \in {m \in DOMAIN fs : /\ fs[m] = type
                                                         /\ GlobMatch(PathName(input_path[1].parts), m)}}
        ELSE {Entry(n) : n \in {m \in DOMAIN fs :
                /\ fs[m] = type
                /\ FaultAt(fault, Dir \o <<m>>) = "none"
                /\ \E i \in 1..Len(input_path) :
                     input_path[i] \in {RelSpec(m), AbsSpec(m)}}}

\* C8: when the resolver returns, its list holds no (path, kind) pair twice
\* and holds exactly the targets the input names, however often and in
\* whichever spelling each was named.
C8_NoDuplicateTargets ==
    [][pc = "resolve" /\ pc' # "crashed" =>
         /\ NoDuplicates(target_list')
         /\ Range(target_list') = NamedTargets
         /\ pc' = (IF NamedTargets = {} THEN "menu" ELSE "position")]_vars

\* one entry named twice, relatively and absolutely, is one target
C8_Witness ==
    /\ pc = "position"
    /\ Len(input_path) >= 2
    /\ input_path[1] # input_path[2]
    /\ ResolvePath(input_path[1]) = ResolvePath(input_path[2])
    /\ Len(target_list) = 1
    /\ target_list[1].path = ResolvePath(input_path[1])

\* C10 as claimed: no two unflagged items of a plan share their new_path,
\* and the destination of every rename the loop attempts does not exist
\* when the rename is made.
C10_Original ==
    /\ pc = "confirm" =>
         \A i, j \in 1..Len(rename_plan) :
           (/\ i # j
            /\ ~rename_plan[i].duplicate
            /\ ~rename_plan[j].duplicate)
             => rename_plan[i].new_path # rename_plan[j].new_path
    /\ (pc = "execute" /\ ~rename_plan[plan_idx].duplicate) =>
         rename_plan[plan_idx].new_name \notin DOMAIN fs

====
